---- MODULE Spec2Model ----
(***************************************************************************)
(* The ingestion run of database.py (DatabaseInitialiser and its __main__  *)
(* script): player and lineup rows are collected, clubs and players get    *)
(* surrogate keys, and every match is written together with its two        *)
(* ClubMatch rows and its lineup, whose club and player names are resolved *)
(* against the key tables.                                                 *)
(*                                                                         *)
(* A string is a sequence of one-character strings; a CSV row is a         *)
(* sequence of fields.  The SQLite store is split into the committed       *)
(* tables (db) and the rows of the open transaction (tx).                  *)
(***************************************************************************)
EXTENDS Integers, Sequences, FiniteSets, TLC

VARIABLES
    pc,               \* position of the __main__ script
    player_datasets,  \* lines of the player CSV files
    lineups_datasets, \* lines of the lineup CSV files
    player_values,    \* self._player_values
    lineup_values,    \* self._lineup_values
    existing_clubs,   \* self._existing_clubs: season -> club names, in insertion order
    club_ids,         \* self._club_ids: (season, club) -> id, in insertion order
    name_ids,         \* self._name_ids: (club, season) -> list of (id, short, long)
    current_id,       \* loop counter of insertMatches
    home_team_id,     \* local of insertMatches
    away_team_id,     \* local of insertMatches
    db,               \* committed tables
    tx,               \* rows inserted since the last commit
    log,              \* every INSERT executed, in execution order
    lev_calls,        \* calls of findClubLevenshtein: <<match id, side, find_id>>
    bigram_calls,     \* calls of compareBigrams: <<match id, side>>
    home_values,      \* local of the last insertLineups call
    away_values       \* local of the last insertLineups call

vars == <<pc, player_datasets, lineups_datasets, player_values, lineup_values,
          existing_clubs, club_ids, name_ids, current_id, home_team_id,
          away_team_id, db, tx, log, lev_calls, bigram_calls, home_values,
          away_values>>

-----------------------------------------------------------------------------
(* Bounds of the model *)

\* slots per side of a lineup row (the code's rows carry 11, match[4:15])
SlotsPerSide == 2

\* most rows of the player files
MaxPlayers == 2

\* most rows of the lineup files
MaxMatches == 1

\* most rows of the player files in the club-resolver specification
MaxClubRows == 3

\* most players of the home club in the lineup-resolver specification
MaxRoster == 2

\* most lines of the player file in the reader specification
MaxPlayerLines == 2

\* most lines of the lineup file in the reader specification
MaxLineupLines == 2

\* the last year of the match dates in the date specification
MaxYear == 2021

-----------------------------------------------------------------------------
(* Values *)

\* Python's None
None == "None"

\* the type object int, the second field of findClubLevenshtein's initial tuple
TypeInt == -1

\* the type object str, the third field of findClubLevenshtein's initial tuple
TypeStr == <<"<class 'str'>">>

\* float('inf')
Infinity == 1000000

\* the initial id of compareBigrams's greatest_similarity: the null slot
NullPlayer == 0

\* the fields of a player row: player[0] .. player[5]
PlayerWidth == 6

Min3(a, b, c) == IF a <= b THEN (IF a <= c THEN a ELSE c) ELSE (IF b <= c THEN b ELSE c)

\* list(filter(lambda x: x != v, s))
FilterNe(s, v) == SelectSeq(s, LAMBDA x : x # v)

-----------------------------------------------------------------------------
(* Pure functions *)

\* jellyfish.levenshtein_distance
RECURSIVE levenshtein_distance(_, _)
levenshtein_distance(s, t) ==
    IF Len(s) = 0 THEN Len(t)
    ELSE IF Len(t) = 0 THEN Len(s)
    ELSE Min3(levenshtein_distance(Tail(s), t) + 1,
              levenshtein_distance(s, Tail(t)) + 1,
              levenshtein_distance(Tail(s), Tail(t))
                  + (IF Head(s) = Head(t) THEN 0 ELSE 1))

\* date_object(year, 5, 30) for year in range(2013, 2021), with the season names
season_boundaries ==
    [i \in 1..8 |->
        <<<<2012 + i, 5, 30>>,
          CASE i = 1 -> "2012/2013" [] i = 2 -> "2013/2014" [] i = 3 -> "2014/2015"
            [] i = 4 -> "2015/2016" [] i = 5 -> "2016/2017" [] i = 6 -> "2017/2018"
            [] i = 7 -> "2018/2019" [] i = 8 -> "2019/2020">>]

\* DateLess with "<=" for "<"
DateLessOrEqual(a, b) ==
    \/ a[1] < b[1]
    \/ a[1] = b[1] /\ a[2] < b[2]
    \/ a[1] = b[1] /\ a[2] = b[2] /\ a[3] <= b[3]

\* date < date on <<year, month, day>>
DateLess(a, b) ==
    \/ a[1] < b[1]
    \/ a[1] = b[1] /\ a[2] < b[2]
    \/ a[1] = b[1] /\ a[2] = b[2] /\ a[3] < b[3]

\* datetime.strptime(match_date, "%d %B %Y").date(): "DD Month YYYY" is <<day, month, year>>
ParseDate(match_date) == <<match_date[3], match_date[2], match_date[1]>>

\* strftime('%Y-%m-%d') of the parsed date
ISODate(match_date) == ParseDate(match_date)

dateToSeason(match_date) ==
    LET date_formatted == ParseDate(match_date)
        hits == {i \in 1..8 : DateLess(date_formatted, season_boundaries[i][1])}
    IN  IF hits = {} THEN None
        ELSE season_boundaries[CHOOSE i \in hits : \A j \in hits : i <= j][2]

\* nltk.word_tokenize on letters and blanks: the maximal blank-free runs
RECURSIVE Tokens(_, _, _)
Tokens(s, cur, acc) ==
    IF s = <<>> THEN (IF cur = <<>> THEN acc ELSE Append(acc, cur))
    ELSE IF Head(s) = " "
         THEN Tokens(Tail(s), <<>>, IF cur = <<>> THEN acc ELSE Append(acc, cur))
         ELSE Tokens(Tail(s), Append(cur, Head(s)), acc)

word_tokenize(s) == Tokens(s, <<>>, <<>>)

\* [first + second for first, second in zip(n[:], n[1:])]
BigramsOfWord(n) == [i \in 1..(Len(n) - 1) |-> <<n[i], n[i + 1]>>]

RECURSIVE ConcatBigrams(_)
ConcatBigrams(names) ==
    IF names = <<>> THEN <<>>
    ELSE BigramsOfWord(Head(names)) \o ConcatBigrams(Tail(names))

generateBigrams(player) ==
    LET formatted_player  == SelectSeq(player, LAMBDA char : char # ".")
        player_names      == word_tokenize(formatted_player)
        significant_names == SelectSeq(player_names, LAMBDA name : Len(name) > 1)
    IN  ConcatBigrams(significant_names)

\* len([bigram for bigram in club_player_bigrams if bigram in player_bigram])
CommonBigrams(club_player_bigrams, player_bigram) ==
    Len(SelectSeq(club_player_bigrams,
                  LAMBDA bigram : \E i \in 1..Len(player_bigram) : player_bigram[i] = bigram))

\* BigramStep with ">=" for ">": a candidate replaces the best so far on a tie
BigramStepOrEqual(greatest_similarity, club_player, player_bigram) ==
    LET id == club_player[1]
        common_short_bigrams == CommonBigrams(generateBigrams(club_player[2]), player_bigram)
        common_long_bigrams  == CommonBigrams(generateBigrams(club_player[3]), player_bigram)
    IN  IF common_short_bigrams <= common_long_bigrams
           /\ common_long_bigrams >= greatest_similarity[1]
        THEN <<common_long_bigrams, id>>
        ELSE IF common_short_bigrams > common_long_bigrams
                /\ common_short_bigrams >= greatest_similarity[1]
             THEN <<common_short_bigrams, id>>
             ELSE greatest_similarity

\* BigramStep that scores a candidate by the smaller of its two scores
BigramStepSmallerScore(greatest_similarity, club_player, player_bigram) ==
    LET id == club_player[1]
        common_short_bigrams == CommonBigrams(generateBigrams(club_player[2]), player_bigram)
        common_long_bigrams  == CommonBigrams(generateBigrams(club_player[3]), player_bigram)
    IN  IF common_short_bigrams >= common_long_bigrams
           /\ common_long_bigrams > greatest_similarity[1]
        THEN <<common_long_bigrams, id>>
        ELSE IF common_short_bigrams < common_long_bigrams
                /\ common_short_bigrams > greatest_similarity[1]
             THEN <<common_short_bigrams, id>>
             ELSE greatest_similarity

\* BigramStep that scores a candidate by its short name only
BigramStepShortOnly(greatest_similarity, club_player, player_bigram) ==
    LET id == club_player[1]
        common_short_bigrams == CommonBigrams(generateBigrams(club_player[2]), player_bigram)
    IN  IF common_short_bigrams > greatest_similarity[1]
        THEN <<common_short_bigrams, id>>
        ELSE greatest_similarity

\* one iteration of compareBigrams's inner loop: greatest_similarity after club_player
BigramStep(greatest_similarity, club_player, player_bigram) ==
    LET id == club_player[1]
        common_short_bigrams == CommonBigrams(generateBigrams(club_player[2]), player_bigram)
        common_long_bigrams  == CommonBigrams(generateBigrams(club_player[3]), player_bigram)
    IN  IF common_short_bigrams <= common_long_bigrams
           /\ common_long_bigrams > greatest_similarity[1]
        THEN <<common_long_bigrams, id>>
        ELSE IF common_short_bigrams > common_long_bigrams
                /\ common_short_bigrams > greatest_similarity[1]
             THEN <<common_short_bigrams, id>>
             ELSE greatest_similarity

\* compareBigrams's inner loop over team_ids
RECURSIVE BigramScan(_, _, _)
BigramScan(team_ids, greatest_similarity, player_bigram) ==
    IF team_ids = <<>> THEN greatest_similarity
    ELSE BigramScan(Tail(team_ids),
                    BigramStep(greatest_similarity, Head(team_ids), player_bigram),
                    player_bigram)

\* the id compareBigrams appends for one player, given the current pool
MostSimilar(player, team_ids) ==
    BigramScan(team_ids, <<0, NullPlayer>>, generateBigrams(player))[2]

\* RemoveSimilar that leaves the matched candidate in the pool
RemoveSimilarNone(team_ids, id) == team_ids

\* team_ids = list(filter(lambda player: player[0] != greatest_similarity[1], team_ids))
RemoveSimilar(team_ids, id) == SelectSeq(team_ids, LAMBDA player : player[1] # id)

RECURSIVE compareBigrams(_, _)
compareBigrams(players, team_ids) ==
    IF players = <<>> THEN <<>>
    ELSE LET id == MostSimilar(Head(players), team_ids)
         IN  <<id>> \o compareBigrams(Tail(players), RemoveSimilar(team_ids, id))

\* h_player in home_id: home_id is the tuple (ID, shortname, longname) and the ID
\* is an integer, so the name is found when it equals the short or the long name
NameInTuple(h_player, home_id) == h_player = home_id[2] \/ h_player = home_id[3]

\* the first candidate of team_ids the inner loop of insertLineups breaks on (0: none)
FirstFound(h_player, team_ids) ==
    LET found == {j \in 1..Len(team_ids) : NameInTuple(h_player, team_ids[j])}
    IN  IF found = {} THEN 0 ELSE CHOOSE j \in found : \A k \in found : j <= k

\* the loop of insertLineups for one side, from slot i of the original lineup on:
\* st = [values, lineup, team_ids]
RECURSIVE ContainmentLoop(_, _, _)
ContainmentLoop(original_lineup, i, st) ==
    IF i > Len(original_lineup) THEN st
    ELSE LET h_player == original_lineup[i]
             j == FirstFound(h_player, st.team_ids)
         IN  IF j = 0 THEN ContainmentLoop(original_lineup, i + 1, st)
             ELSE ContainmentLoop(original_lineup, i + 1,
                    [values   |-> Append(st.values, st.team_ids[j][1]),
                     team_ids |-> FilterNe(st.team_ids, st.team_ids[j]),
                     lineup   |-> FilterNe(st.lineup, h_player)])

\* home_values (or away_values) of insertLineups for one side, and whether
\* compareBigrams was called for it
ResolveSide(lineup, team_ids) ==
    LET st == ContainmentLoop(lineup, 1,
                  [values |-> <<>>, team_ids |-> team_ids, lineup |-> lineup])
    IN  IF Len(st.lineup) > 0
        THEN [values |-> st.values \o compareBigrams(st.lineup, st.team_ids),
              bigrams |-> TRUE, contained |-> st.values, left |-> st.lineup,
              pool |-> st.team_ids]
        ELSE [values |-> st.values, bigrams |-> FALSE, contained |-> st.values,
              left |-> st.lineup, pool |-> st.team_ids]

\* LevenshteinStep with "distance <= greatest_similarity[0]": the last minimum wins
LevenshteinStepLastWins(greatest_similarity, e, entered_season, entered_club) ==
    LET distance == levenshtein_distance(e.club, entered_club)
    IN  IF entered_season = e.season /\ distance <= greatest_similarity[1]
        THEN <<distance, e.id, e.club>>
        ELSE greatest_similarity

\* LevenshteinStep without the test "entered_season == season"
LevenshteinStepAnySeason(greatest_similarity, e, entered_season, entered_club) ==
    LET distance == levenshtein_distance(e.club, entered_club)
    IN  IF distance < greatest_similarity[1]
        THEN <<distance, e.id, e.club>>
        ELSE greatest_similarity

\* one iteration of findClubLevenshtein's loop: greatest_similarity after item e
LevenshteinStep(greatest_similarity, e, entered_season, entered_club) ==
    LET distance == levenshtein_distance(e.club, entered_club)
    IN  IF entered_season = e.season /\ distance < greatest_similarity[1]
        THEN <<distance, e.id, e.club>>
        ELSE greatest_similarity

\* the loop of findClubLevenshtein over self._club_ids.items()
RECURSIVE LevenshteinScan(_, _, _, _)
LevenshteinScan(items, greatest_similarity, entered_season, entered_club) ==
    IF items = <<>> THEN greatest_similarity
    ELSE LevenshteinScan(Tail(items),
             LevenshteinStep(greatest_similarity, Head(items), entered_season, entered_club),
             entered_season, entered_club)

\* findClubLevenshtein that starts from the first entry of the table, not from
\* (float('inf'), int, str)
findClubLevenshteinFromFirst(find_id, entered_season, entered_club) ==
    LET greatest_similarity ==
            LevenshteinScan(club_ids,
                            IF club_ids = <<>> THEN <<Infinity, TypeInt, TypeStr>>
                            ELSE <<Infinity, club_ids[1].id, club_ids[1].club>>,
                            entered_season, entered_club)
    IN  IF find_id THEN greatest_similarity[2] ELSE greatest_similarity[3]

findClubLevenshtein(find_id, entered_season, entered_club) ==
    LET greatest_similarity ==
            LevenshteinScan(club_ids, <<Infinity, TypeInt, TypeStr>>,
                            entered_season, entered_club)
    IN  IF find_id THEN greatest_similarity[2] ELSE greatest_similarity[3]


-----------------------------------------------------------------------------
(* The store *)

EmptyTables ==
    [Clubs |-> <<>>, Players |-> <<>>, Matches |-> <<>>, ClubMatch |-> <<>>, Lineups |-> <<>>]

\* self.conn.commit(): the rows of the open transaction join the committed tables
Committed(store, pending) ==
    [t \in DOMAIN store |-> store[t] \o pending[t]]

\* cursor.execute("INSERT INTO <table> ..."): one more row in the open transaction
Inserted(pending, table, row) == [pending EXCEPT ![table] = Append(@, row)]

\* the rows a query on the connection sees: committed and pending
Visible(table) == db[table] \o tx[table]

-----------------------------------------------------------------------------
(* Dictionaries *)

\* season in self._existing_clubs.keys()
HasSeason(clubs, season) == \E i \in 1..Len(clubs) : clubs[i].season = season

\* CollectClub that looks for club_name in the lists of all seasons
CollectClubAnySeason(clubs, player) ==
    LET club_name == player[5]
        season    == player[6]
    IN  IF HasSeason(clubs, season)
           /\ ~ \E i \in 1..Len(clubs) :
                    \E k \in 1..Len(clubs[i].clubs) : clubs[i].clubs[k] = club_name
        THEN [i \in 1..Len(clubs) |->
                IF clubs[i].season = season
                THEN [clubs[i] EXCEPT !.clubs = Append(@, club_name)]
                ELSE clubs[i]]
        ELSE IF ~ HasSeason(clubs, season)
             THEN Append(clubs, [season |-> season, clubs |-> <<club_name>>])
             ELSE clubs

\* CollectClub without the test "club_name in self._existing_clubs[season]"
CollectClubAlwaysAppend(clubs, player) ==
    LET club_name == player[5]
        season    == player[6]
    IN  IF HasSeason(clubs, season)
        THEN [i \in 1..Len(clubs) |->
                IF clubs[i].season = season
                THEN [clubs[i] EXCEPT !.clubs = Append(@, club_name)]
                ELSE clubs[i]]
        ELSE Append(clubs, [season |-> season, clubs |-> <<club_name>>])

\* one iteration of collectClubs's loop
CollectClub(clubs, player) ==
    LET club_name == player[5]
        season    == player[6]
    IN  IF HasSeason(clubs, season)
           /\ ~ \E i \in 1..Len(clubs) :
                    /\ clubs[i].season = season
                    /\ \E k \in 1..Len(clubs[i].clubs) : clubs[i].clubs[k] = club_name
        THEN [i \in 1..Len(clubs) |->
                IF clubs[i].season = season
                THEN [clubs[i] EXCEPT !.clubs = Append(@, club_name)]
                ELSE clubs[i]]
        ELSE IF ~ HasSeason(clubs, season)
             THEN Append(clubs, [season |-> season, clubs |-> <<club_name>>])
             ELSE clubs

RECURSIVE CollectClubsLoop(_, _)
CollectClubsLoop(clubs, players) ==
    IF players = <<>> THEN clubs
    ELSE CollectClubsLoop(CollectClub(clubs, Head(players)), Tail(players))

\* self._club_ids[(season, club)] = current_id
SetClubId(ids, season, club, id) ==
    IF \E i \in 1..Len(ids) : ids[i].season = season /\ ids[i].club = club
    THEN [i \in 1..Len(ids) |->
            IF ids[i].season = season /\ ids[i].club = club
            THEN [ids[i] EXCEPT !.id = id] ELSE ids[i]]
    ELSE Append(ids, [season |-> season, club |-> club, id |-> id])

\* AssignLoop with current_id set back to 1 at each season
RECURSIVE AssignLoopPerSeason(_, _, _, _, _)
AssignLoopPerSeason(clubs, i, k, ids, id) ==
    IF i > Len(clubs) THEN ids
    ELSE IF k > Len(clubs[i].clubs) THEN AssignLoopPerSeason(clubs, i + 1, 1, ids, 1)
    ELSE AssignLoopPerSeason(clubs, i, k + 1,
                             SetClubId(ids, clubs[i].season, clubs[i].clubs[k], id), id + 1)

\* the two loops of assignClubIDs, from club k of season i on
RECURSIVE AssignLoop(_, _, _, _, _)
AssignLoop(clubs, i, k, ids, id) ==
    IF i > Len(clubs) THEN ids
    ELSE IF k > Len(clubs[i].clubs) THEN AssignLoop(clubs, i + 1, 1, ids, id)
    ELSE AssignLoop(clubs, i, k + 1,
                    SetClubId(ids, clubs[i].season, clubs[i].clubs[k], id), id + 1)

\* (season, club) in self._club_ids
HasClub(season, club) ==
    \E i \in 1..Len(club_ids) : club_ids[i].season = season /\ club_ids[i].club = club

\* self._club_ids[(season, club)]
ClubId(season, club) ==
    club_ids[CHOOSE i \in 1..Len(club_ids) :
                club_ids[i].season = season /\ club_ids[i].club = club].id

\* lookupClub going to the edit-distance fallback without the exact lookup
lookupClubAlwaysLevenshtein(season, club) ==
    [id |-> findClubLevenshtein(TRUE, season, club), lev |-> TRUE]

\* the try/except of insertMatches around one club lookup
lookupClub(season, club) ==
    IF HasClub(season, club)
    THEN [id |-> ClubId(season, club), lev |-> FALSE]
    ELSE [id |-> findClubLevenshtein(TRUE, season, club), lev |-> TRUE]

\* lookupRoster whose fallback takes the first club of the season in club_ids, not
\* the club findClubLevenshtein finds
lookupRosterFirstOfSeason(club, date_season) ==
    LET entries == {i \in 1..Len(club_ids) : club_ids[i].season = date_season}
    IN  IF <<club, date_season>> \in DOMAIN name_ids
        THEN [key |-> <<club, date_season>>, lev |-> FALSE]
        ELSE [key |-> <<IF entries = {} THEN TypeStr
                        ELSE club_ids[CHOOSE i \in entries :
                                         \A j \in entries : i <= j].club,
                        date_season>>,
              lev |-> TRUE]

\* the try/except of insertLineups around one roster lookup: the key into name_ids
lookupRoster(club, date_season) ==
    IF <<club, date_season>> \in DOMAIN name_ids
    THEN [key |-> <<club, date_season>>, lev |-> FALSE]
    ELSE [key |-> <<findClubLevenshtein(FALSE, date_season, club), date_season>>,
          lev |-> TRUE]

\* InsertPlayersLoop that always takes the else branch: a new list for the key
RECURSIVE InsertPlayersLoopNewList(_, _)
InsertPlayersLoopNewList(i, st) ==
    IF i > Len(player_values) THEN st
    ELSE LET player == player_values[i]
             key == <<player[5], player[6]>>
             row == <<i, player[1], player[2], player[3], player[4],
                      ClubId(player[6], player[5]), player[6]>>
             entry == <<i, player[1], player[2]>>
         IN  InsertPlayersLoopNewList(i + 1,
                [rows  |-> Append(st.rows, row),
                 names |-> [k \in DOMAIN st.names \cup {key} |->
                                    IF k = key THEN <<entry>> ELSE st.names[k]],
                 log   |-> Append(st.log, <<"Players", i>>)])

\* the loop of insertPlayers: rows, name index and log after player i and the rest
RECURSIVE InsertPlayersLoop(_, _)
InsertPlayersLoop(i, st) ==
    IF i > Len(player_values) THEN st
    ELSE LET player == player_values[i]
             key == <<player[5], player[6]>>
             row == <<i, player[1], player[2], player[3], player[4],
                      ClubId(player[6], player[5]), player[6]>>
             entry == <<i, player[1], player[2]>>
         IN  InsertPlayersLoop(i + 1,
                [rows  |-> Append(st.rows, row),
                 names |-> IF key \in DOMAIN st.names
                           THEN [st.names EXCEPT ![key] = Append(@, entry)]
                           ELSE [k \in DOMAIN st.names \cup {key} |->
                                    IF k = key THEN <<entry>> ELSE st.names[k]],
                 log   |-> Append(st.log, <<"Players", i>>)])

-----------------------------------------------------------------------------
(* The reader *)

\* A line of a CSV file is a sequence of tokens: a comma, a newline, or a run of
\* other characters, kept as the value the run spells
Comma == [kind |-> ","]

Newline == [kind |-> "\n"]

Text(value) == [kind |-> "text", value |-> value]

\* the empty string
EmptyField == <<>>

\* re.sub("\n", "", row)
formatted_row(row) == SelectSeq(row, LAMBDA token : token.kind # "\n")

\* str.split(","): the fields between the commas, one more than there are commas;
\* cur is the field being read, of which has tells whether it holds a run yet
RECURSIVE split(_, _, _, _)
split(tokens, has, cur, acc) ==
    IF tokens = <<>> THEN Append(acc, IF has THEN cur ELSE EmptyField)
    ELSE IF Head(tokens).kind = ","
         THEN split(Tail(tokens), FALSE, EmptyField,
                    Append(acc, IF has THEN cur ELSE EmptyField))
         ELSE split(Tail(tokens), TRUE,
                    IF has THEN cur \o Head(tokens).value ELSE Head(tokens).value, acc)

\* readCSV: one entry for every line of the file
readCSV(file) ==
    [i \in 1..Len(file) |-> split(formatted_row(file[i]), FALSE, EmptyField, <<>>)]

\* match[4:15] and match[15:]: a slice stops at the end of the list
Slice(list, from, to) ==
    IF from > Len(list) THEN <<>>
    ELSE SubSeq(list, from, IF to > Len(list) THEN Len(list) ELSE to)

\* buildSets: of the ids of one side of a lineup, those it calls selectPlayer for
buildSetsPlayers(ids) == SelectSeq(ids, LAMBDA id : id # 0)

-----------------------------------------------------------------------------
(* The __main__ script *)

collectPlayers ==
    /\ pc = "collectPlayers"
    /\ player_values' = player_values \o readCSV(player_datasets)
    /\ pc' = "collectClubs"
    /\ UNCHANGED <<player_datasets, lineups_datasets, lineup_values, existing_clubs,
                   club_ids, name_ids, current_id, home_team_id, away_team_id, db, tx,
                   log, lev_calls, bigram_calls,
                   home_values, away_values>>

\* collectClubs; player[4] or player[5] of a row with fewer than six fields raises
\* IndexError, which ends the run at that row
collectClubs ==
    /\ pc = "collectClubs"
    /\ LET short == {i \in 1..Len(player_values) : Len(player_values[i]) < PlayerWidth}
           first == IF short = {} THEN Len(player_values) + 1
                    ELSE CHOOSE i \in short : \A j \in short : i <= j
       IN  /\ existing_clubs' =
                CollectClubsLoop(existing_clubs, SubSeq(player_values, 1, first - 1))
           /\ pc' = IF short = {} THEN "collectLineups" ELSE "aborted"
    /\ UNCHANGED <<player_datasets, lineups_datasets, player_values, lineup_values,
                   club_ids, name_ids, current_id, home_team_id, away_team_id, db, tx,
                   log, lev_calls, bigram_calls,
                   home_values, away_values>>

collectLineups ==
    /\ pc = "collectLineups"
    /\ lineup_values' = lineup_values \o readCSV(lineups_datasets)
    /\ pc' = "assignClubIDs"
    /\ UNCHANGED <<player_datasets, lineups_datasets, player_values, existing_clubs,
                   club_ids, name_ids, current_id, home_team_id, away_team_id, db, tx,
                   log, lev_calls, bigram_calls,
                   home_values, away_values>>

assignClubIDs ==
    /\ pc = "assignClubIDs"
    /\ club_ids' = AssignLoop(existing_clubs, 1, 1, club_ids, 1)
    /\ pc' = "createTables"
    /\ UNCHANGED <<player_datasets, lineups_datasets, player_values, lineup_values,
                   existing_clubs, name_ids, current_id, home_team_id, away_team_id,
                   db, tx, log, lev_calls, bigram_calls,
                   home_values, away_values>>

\* createPlayersTable .. createLineupTable: five empty tables, each committed
createTables ==
    /\ pc = "createTables"
    /\ db' = Committed(db, tx)
    /\ tx' = EmptyTables
    /\ pc' = "insertPlayers"
    /\ UNCHANGED <<player_datasets, lineups_datasets, player_values, lineup_values,
                   existing_clubs, club_ids, name_ids, current_id, home_team_id,
                   away_team_id, log, lev_calls, bigram_calls,
                   home_values, away_values>>

insertPlayers ==
    /\ pc = "insertPlayers"
    /\ IF \A i \in 1..Len(player_values) :
             HasClub(player_values[i][6], player_values[i][5])
       THEN LET st == InsertPlayersLoop(1, [rows |-> <<>>, names |-> name_ids, log |-> log])
            IN  /\ db' = Committed(db, [tx EXCEPT !.Players = @ \o st.rows])
                /\ tx' = EmptyTables
                /\ name_ids' = st.names
                /\ log' = st.log
                /\ pc' = "insertClubs"
       ELSE \* KeyError in self._club_ids
            /\ pc' = "aborted"
            /\ tx' = EmptyTables
            /\ UNCHANGED <<db, name_ids, log>>
    /\ UNCHANGED <<player_datasets, lineups_datasets, player_values, lineup_values,
                   existing_clubs, club_ids, current_id, home_team_id, away_team_id,
                   lev_calls, bigram_calls,
                   home_values, away_values>>

\* insertClubs that writes every club under the key after its own
insertClubsNextKey ==
    /\ pc = "insertClubs"
    /\ LET rows == [i \in 1..Len(club_ids) |->
                        <<club_ids[i].id + 1, club_ids[i].club, club_ids[i].season>>]
       IN  /\ db' = Committed(db, [tx EXCEPT !.Clubs = @ \o rows])
           /\ log' = log \o [i \in 1..Len(club_ids) |-> <<"Clubs", club_ids[i].id + 1>>]
    /\ tx' = EmptyTables
    /\ pc' = "insertMatches"
    /\ UNCHANGED <<player_datasets, lineups_datasets, player_values, lineup_values,
                   existing_clubs, club_ids, name_ids, current_id, home_team_id,
                   away_team_id, lev_calls, bigram_calls,
                   home_values, away_values>>

insertClubs ==
    /\ pc = "insertClubs"
    /\ LET rows == [i \in 1..Len(club_ids) |->
                        <<club_ids[i].id, club_ids[i].club, club_ids[i].season>>]
       IN  /\ db' = Committed(db, [tx EXCEPT !.Clubs = @ \o rows])
           /\ log' = log \o [i \in 1..Len(club_ids) |-> <<"Clubs", club_ids[i].id>>]
    /\ tx' = EmptyTables
    /\ pc' = "insertMatches"
    /\ UNCHANGED <<player_datasets, lineups_datasets, player_values, lineup_values,
                   existing_clubs, club_ids, name_ids, current_id, home_team_id,
                   away_team_id, lev_calls, bigram_calls,
                   home_values, away_values>>

\* insertMatches, one iteration up to the commit of the Matches row (lines 276-291)
insertMatches ==
    /\ pc = "insertMatches"
    /\ current_id <= Len(lineup_values)
    /\ IF Len(lineup_values[current_id]) < 4
       THEN \* "home_name, away_name, score, date_unformatted, *_ = match" raises
            \* ValueError: not enough values to unpack
            /\ pc' = "aborted"
            /\ tx' = EmptyTables
            /\ UNCHANGED <<db, log, lev_calls, home_team_id, away_team_id>>
       ELSE
         LET match  == lineup_values[current_id]
             season == dateToSeason(match[4])
             home   == lookupClub(season, match[1])
             away   == lookupClub(season, match[2])
             row    == <<current_id, season, home.id, away.id, match[3], current_id,
                         ISODate(match[4])>>
         IN  /\ lev_calls' = lev_calls
                  \cup (IF home.lev THEN {<<current_id, "home", TRUE>>} ELSE {})
                  \cup (IF away.lev THEN {<<current_id, "away", TRUE>>} ELSE {})
             /\ home_team_id' = home.id
             /\ away_team_id' = away.id
             /\ IF home.id = TypeInt \/ away.id = TypeInt
                THEN \* sqlite3 cannot bind a type object: the INSERT raises
                     /\ pc' = "aborted"
                     /\ tx' = EmptyTables
                     /\ UNCHANGED <<db, log>>
                ELSE /\ db' = Committed(db, Inserted(tx, "Matches", row))
                     /\ tx' = EmptyTables
                     /\ log' = Append(log, <<"Matches", current_id>>)
                     /\ pc' = "insertClubMatch"
    /\ UNCHANGED <<player_datasets, lineups_datasets, player_values, lineup_values,
                   existing_clubs, club_ids, name_ids, current_id, bigram_calls,
                   home_values, away_values>>

\* insertClubMatch with home_team_id in both calls
insertClubMatchHomeTwice ==
    /\ pc = "insertClubMatch"
    /\ tx' = Inserted(Inserted(tx, "ClubMatch", <<home_team_id, current_id>>),
                      "ClubMatch", <<home_team_id, current_id>>)
    /\ log' = log \o <<<<"ClubMatch", current_id>>, <<"ClubMatch", current_id>>>>
    /\ pc' = "insertLineups"
    /\ UNCHANGED <<player_datasets, lineups_datasets, player_values, lineup_values,
                   existing_clubs, club_ids, name_ids, current_id, home_team_id,
                   away_team_id, db, lev_calls, bigram_calls,
                   home_values, away_values>>

\* insertClubMatch with the two calls left out
insertClubMatchOmitted ==
    /\ pc = "insertClubMatch"
    /\ pc' = "insertLineups"
    /\ UNCHANGED <<player_datasets, lineups_datasets, player_values, lineup_values,
                   existing_clubs, club_ids, name_ids, current_id, home_team_id,
                   away_team_id, db, tx, log, lev_calls, bigram_calls,
                   home_values, away_values>>

\* the two insertClubMatch calls of the iteration (lines 292-293)
insertClubMatch ==
    /\ pc = "insertClubMatch"
    /\ tx' = Inserted(Inserted(tx, "ClubMatch", <<home_team_id, current_id>>),
                      "ClubMatch", <<away_team_id, current_id>>)
    /\ log' = log \o <<<<"ClubMatch", current_id>>, <<"ClubMatch", current_id>>>>
    /\ pc' = "insertLineups"
    /\ UNCHANGED <<player_datasets, lineups_datasets, player_values, lineup_values,
                   existing_clubs, club_ids, name_ids, current_id, home_team_id,
                   away_team_id, db, lev_calls, bigram_calls,
                   home_values, away_values>>

\* the lineup insertLineups resolves for a match row: the rosters it looks up, the
\* values of both sides, and whether the call raises
ResolvedLineup(match) ==
    LET home_lineup == Slice(match, 5, 4 + SlotsPerSide)
        away_lineup == Slice(match, 5 + SlotsPerSide, Len(match))
        date_season == dateToSeason(match[4])
        home_key    == lookupRoster(match[1], date_season)
        away_key    == lookupRoster(match[2], date_season)
        home_ok     == home_key.key \in DOMAIN name_ids
        rosters_ok  == home_ok /\ away_key.key \in DOMAIN name_ids
        lengths_ok  == Len(home_lineup) = Len(away_lineup)
        home == ResolveSide(home_lineup, name_ids[home_key.key])
        away == ResolveSide(away_lineup, name_ids[away_key.key])
    IN  [home_lev |-> home_key.lev,
         away_lev |-> home_ok /\ away_key.lev,
         resolved |-> rosters_ok /\ lengths_ok,
         home |-> IF rosters_ok /\ lengths_ok THEN home
                  ELSE [values |-> <<>>, bigrams |-> FALSE],
         away |-> IF rosters_ok /\ lengths_ok THEN away
                  ELSE [values |-> <<>>, bigrams |-> FALSE]]

\* insertLineups that stores the candidates its containment pass left back into
\* name_ids, as if the filter worked on the roster list itself
insertLineupsShrinkRoster ==
    /\ pc = "insertLineups"
    /\ LET match == lineup_values[current_id]
           r == ResolvedLineup(match)
           season == dateToSeason(match[4])
           values == <<current_id>> \o r.home.values \o r.away.values
       IN  /\ home_values' = r.home.values
           /\ away_values' = r.away.values
           /\ lev_calls' = lev_calls
                \cup (IF r.home_lev THEN {<<current_id, "home", FALSE>>} ELSE {})
                \cup (IF r.away_lev THEN {<<current_id, "away", FALSE>>} ELSE {})
           /\ bigram_calls' = bigram_calls
                \cup (IF r.home.bigrams THEN {<<current_id, "home">>} ELSE {})
                \cup (IF r.away.bigrams THEN {<<current_id, "away">>} ELSE {})
           /\ name_ids' =
                IF r.resolved
                THEN [name_ids EXCEPT ![lookupRoster(match[1], season).key] = r.home.pool,
                                      ![lookupRoster(match[2], season).key] = r.away.pool]
                ELSE name_ids
           /\ IF r.resolved /\ Len(values) = 1 + 2 * SlotsPerSide
              THEN /\ db' = Committed(db, Inserted(tx, "Lineups", values))
                   /\ tx' = EmptyTables
                   /\ log' = Append(log, <<"Lineups", current_id>>)
                   /\ current_id' = current_id + 1
                   /\ pc' = "insertMatches"
              ELSE /\ pc' = "aborted"
                   /\ tx' = EmptyTables
                   /\ UNCHANGED <<db, log, current_id>>
    /\ UNCHANGED <<player_datasets, lineups_datasets, player_values, lineup_values,
                   existing_clubs, club_ids, home_team_id, away_team_id>>

\* insertLineups that writes every lineup under the key 1
insertLineupsKeyOne ==
    /\ pc = "insertLineups"
    /\ LET match == lineup_values[current_id]
           r == ResolvedLineup(match)
           values == <<1>> \o r.home.values \o r.away.values
       IN  /\ home_values' = r.home.values
           /\ away_values' = r.away.values
           /\ lev_calls' = lev_calls
                \cup (IF r.home_lev THEN {<<current_id, "home", FALSE>>} ELSE {})
                \cup (IF r.away_lev THEN {<<current_id, "away", FALSE>>} ELSE {})
           /\ bigram_calls' = bigram_calls
                \cup (IF r.home.bigrams THEN {<<current_id, "home">>} ELSE {})
                \cup (IF r.away.bigrams THEN {<<current_id, "away">>} ELSE {})
           /\ IF r.resolved /\ Len(values) = 1 + 2 * SlotsPerSide
              THEN /\ db' = Committed(db, Inserted(tx, "Lineups", values))
                   /\ tx' = EmptyTables
                   /\ log' = Append(log, <<"Lineups", current_id>>)
                   /\ current_id' = current_id + 1
                   /\ pc' = "insertMatches"
              ELSE \* KeyError, AssertionError, or sqlite3's "Incorrect number of
                   \* bindings supplied": the run ends with the transaction open
                   /\ pc' = "aborted"
                   /\ tx' = EmptyTables
                   /\ UNCHANGED <<db, log, current_id>>
    /\ UNCHANGED <<player_datasets, lineups_datasets, player_values, lineup_values,
                   existing_clubs, club_ids, name_ids, home_team_id, away_team_id>>

\* insertLineups(current_id, match) and the end of the iteration (lines 294-295)
insertLineups ==
    /\ pc = "insertLineups"
    /\ LET match == lineup_values[current_id]
           r == ResolvedLineup(match)
           values == <<current_id>> \o r.home.values \o r.away.values
       IN  /\ home_values' = r.home.values
           /\ away_values' = r.away.values
           /\ lev_calls' = lev_calls
                \cup (IF r.home_lev THEN {<<current_id, "home", FALSE>>} ELSE {})
                \cup (IF r.away_lev THEN {<<current_id, "away", FALSE>>} ELSE {})
           /\ bigram_calls' = bigram_calls
                \cup (IF r.home.bigrams THEN {<<current_id, "home">>} ELSE {})
                \cup (IF r.away.bigrams THEN {<<current_id, "away">>} ELSE {})
           /\ IF r.resolved /\ Len(values) = 1 + 2 * SlotsPerSide
              THEN /\ db' = Committed(db, Inserted(tx, "Lineups", values))
                   /\ tx' = EmptyTables
                   /\ log' = Append(log, <<"Lineups", current_id>>)
                   /\ current_id' = current_id + 1
                   /\ pc' = "insertMatches"
              ELSE \* KeyError, AssertionError, or sqlite3's "Incorrect number of
                   \* bindings supplied": the run ends with the transaction open
                   /\ pc' = "aborted"
                   /\ tx' = EmptyTables
                   /\ UNCHANGED <<db, log, current_id>>
    /\ UNCHANGED <<player_datasets, lineups_datasets, player_values, lineup_values,
                   existing_clubs, club_ids, name_ids, home_team_id, away_team_id>>

closeDB ==
    /\ pc = "insertMatches"
    /\ current_id > Len(lineup_values)
    /\ tx' = EmptyTables
    /\ pc' = "done"
    /\ UNCHANGED <<player_datasets, lineups_datasets, player_values, lineup_values,
                   existing_clubs, club_ids, name_ids, current_id, home_team_id,
                   away_team_id, db, log, lev_calls, bigram_calls,
                   home_values, away_values>>

Next ==
    \/ collectPlayers
    \/ collectClubs
    \/ collectLineups
    \/ assignClubIDs
    \/ createTables
    \/ insertPlayers
    \/ insertClubs
    \/ insertMatches
    \/ insertClubMatch
    \/ insertLineups
    \/ closeDB


-----------------------------------------------------------------------------
(* Inputs *)

SeqsUpTo(S, n) == UNION {[1..k -> S] : k \in 0..n}

S17 == "2017/2018"
S18 == "2018/2019"

\* "12 May 2018", of season 2017/2018
D17 == <<12, 5, 2018>>
\* "30 May 2018", the first day of season 2018/2019
D18 == <<30, 5, 2018>>

\* club names
CA == <<"a", "b">>
CB == <<"a", "c">>
CC == <<"b">>

\* player names: <<short name, long name>>
P1 == << <<"a", "b">>, <<"a", "b", "c">> >>
P2 == << <<"b", "c">>, <<"b", "c", "b">> >>
P3 == << <<"b", ".", " ", "c", "b">>, <<"b", " ", "c", "b", "c">> >>
P4 == << <<"c", "a">>, <<"c", "a", "b">> >>
P5 == << <<"b", "c", "b", "c">>, <<"b", "c", "b", "c", "b">> >>

\* lineup names
N1 == <<"a", "b">>
N2 == <<"b", "c">>
N3 == <<"c", "b">>
N4 == <<"c", "b", "c">>
N5 == <<"c", "a">>

\* the line of a file that spells the given fields: the fields, with a comma
\* between one and the next, and the newline
Line(fields) ==
    [i \in 1..(2 * Len(fields)) |->
        IF i = 2 * Len(fields) THEN Newline
        ELSE IF i % 2 = 0 THEN Comma
        ELSE Text(fields[(i + 1) \div 2])]

\* a row of a player file: short_name, long_name, position, rating, club_name, season
PlayerRow(names, club, season) ==
    Line(<<names[1], names[2], "ST", "90", club, season>>)

\* a row of a lineup file: home_club, away_club, score, date, home names, away names
LineupRow(home, away, date, home_lineup, away_lineup) ==
    Line(<<home, away, "3-1", date>> \o home_lineup \o away_lineup)

Rep(name) == [i \in 1..SlotsPerSide |-> name]
Mixed(first, rest) == [i \in 1..SlotsPerSide |-> IF i = 1 THEN first ELSE rest]

PlayerRows == {PlayerRow(P1, club, season) : club \in {CA, CB}, season \in {S17, S18}}

LineupRows ==
    {LineupRow(home, CB, date, hl, al) :
        home \in {CA, CB}, date \in {D17, D18},
        hl \in {Rep(N1), Mixed(N1, N2), Rep(N2)}, al \in {Rep(N1), Rep(N2)}}

\* the state after DatabaseInitialiser.__init__, establishConnection and setCursor
Start(players, lineups) ==
    /\ pc = "collectPlayers"
    /\ player_datasets = players
    /\ lineups_datasets = lineups
    /\ player_values = <<>>
    /\ lineup_values = <<>>
    /\ existing_clubs = <<>>
    /\ club_ids = <<>>
    /\ name_ids = <<>>
    /\ current_id = 1
    /\ home_team_id = 0
    /\ away_team_id = 0
    /\ db = EmptyTables
    /\ tx = EmptyTables
    /\ log = <<>>
    /\ lev_calls = {}
    /\ bigram_calls = {}
    /\ home_values = <<>>
    /\ away_values = <<>>

Init ==
    \E players \in SeqsUpTo(PlayerRows, MaxPlayers), lineups \in SeqsUpTo(LineupRows, MaxMatches) :
        Start(players, lineups)

Spec == Init /\ [][Next]_vars


\* the club-resolver runs: up to MaxClubRows players of three clubs in two seasons,
\* and one match whose home club is spelled as in the player files or not
ClubPlayerRows == {PlayerRow(P1, club, season) : club \in {CA, CB, CC}, season \in {S17, S18}}

ClubLineupRows ==
    {LineupRow(home, CB, date, Rep(N2), Rep(N2)) :
        home \in {CA, <<"a">>, <<"b", "c">>}, date \in {D17, D18}}

InitClub ==
    \E players \in SeqsUpTo(ClubPlayerRows, MaxClubRows), row \in ClubLineupRows :
        Start(players, <<row>>)

SpecClub == InitClub /\ [][Next]_vars

\* the lineup-resolver runs: up to MaxRoster players of the home club, two players
\* of the away club, and one match between them with any names in the home slots
HomeRosters == SeqsUpTo({P1, P2, P3}, MaxRoster)

AwayRoster == <<P2, P4>>

RosterRows(roster, club) == [i \in 1..Len(roster) |-> PlayerRow(roster[i], club, S17)]

InitLineup ==
    \E roster \in HomeRosters,
       hl \in [1..SlotsPerSide -> {N1, N2, N3, N4}],
       al \in [1..SlotsPerSide -> {N3, N5}] :
        Start(RosterRows(roster, CA) \o RosterRows(AwayRoster, CB),
              <<LineupRow(CA, CB, D17, hl, al)>>)

SpecLineup == InitLineup /\ [][Next]_vars

\* the reader runs: files of up to MaxPlayerLines and MaxLineupLines lines, each
\* line a whole row, a row that stops after its second field, or an empty line;
\* the players are of season 2017/2018, and one of the matches is of 2018/2019
ShortLine == Line(<<CA, CB>>)

EmptyLine == <<Newline>>

FilePlayerLines == {PlayerRow(P1, CA, S17), PlayerRow(P2, CB, S17), ShortLine, EmptyLine}

FileLineupLines ==
    {LineupRow(CA, CB, D17, Mixed(N1, N3), Mixed(N2, N5)),
     LineupRow(CB, CA, D17, Mixed(N2, N5), Mixed(N1, N3)),
     LineupRow(CA, CB, D18, Mixed(N1, N3), Mixed(N2, N5)),
     ShortLine, EmptyLine}

InitFiles ==
    \E players \in SeqsUpTo(FilePlayerLines, MaxPlayerLines),
       lineups \in SeqsUpTo(FileLineupLines, MaxLineupLines) :
        Start(players, lineups)

SpecFiles == InitFiles /\ [][Next]_vars

\* the date runs: one player row, of any of the eight seasons, and one match
\* of its club on a day around a season boundary of the years 2012 .. MaxYear
MatchDates ==
    {<<dm[1], dm[2], year>> :
        dm \in {<<1, 1>>, <<29, 5>>, <<30, 5>>, <<31, 5>>, <<31, 12>>},
        year \in 2012..MaxYear}

SeasonNames == {season_boundaries[i][2] : i \in 1..8}

InitDates ==
    \E season \in SeasonNames, date \in MatchDates :
        Start(<<PlayerRow(P1, CA, season)>>,
              <<LineupRow(CA, CB, date, Mixed(N1, N3), Mixed(N2, N5))>>)

SpecDates == InitDates /\ [][Next]_vars

\* the score runs: a home roster with a player whose names repeat a bigram, and one
\* match with any names in the home slots
ScoreRosters == {<<P1>>, <<P5>>, <<P1, P5>>, <<P5, P1>>}

InitScore ==
    \E roster \in ScoreRosters,
       hl \in [1..SlotsPerSide -> {N1, N2, N3, N4}] :
        Start(RosterRows(roster, CA) \o RosterRows(AwayRoster, CB),
              <<LineupRow(CA, CB, D17, hl, Mixed(N5, N3))>>)

SpecScore == InitScore /\ [][Next]_vars

-----------------------------------------------------------------------------
(* Properties *)

\* the club name of a lineup row on a side
SideClub(match, side) == IF side = "home" THEN match[1] ELSE match[2]

\* the rows of a committed table with a given value in a given column
RowsWith(table, column, value) ==
    {i \in 1..Len(db[table]) : db[table][i][column] = value}

\* C1: when the run has failed, every committed Matches row has its Lineups row and
\* its two ClubMatch rows in the committed store.
C1_MatchUnitAtomic ==
    pc = "aborted" =>
        \A i \in 1..Len(db.Matches) :
            /\ RowsWith("Lineups", 1, db.Matches[i][6]) # {}
            /\ Cardinality(RowsWith("ClubMatch", 2, db.Matches[i][1])) = 2

\* C2: every INSERT into Clubs is executed before any INSERT into Players and
\* before any INSERT into Matches.
C2_ClubsBeforePlayersAndMatches ==
    \A i, j \in 1..Len(log) :
        log[i][1] = "Clubs" /\ log[j][1] \in {"Players", "Matches"} => i < j

\* C3: every INSERT into Players is executed before any INSERT into Lineups; the
\* two ClubMatch inserts of a match follow its Matches insert, and its Lineups
\* insert follows all three.
C3_DependencyOrder ==
    /\ \A i, j \in 1..Len(log) :
          log[i][1] = "Players" /\ log[j][1] = "Lineups" => i < j
    /\ \A j \in 1..Len(log) :
          log[j][1] = "ClubMatch" =>
              \E i \in 1..(j - 1) : log[i] = <<"Matches", log[j][2]>>
    /\ \A k \in 1..Len(log) :
          log[k][1] = "Lineups" =>
              /\ \E i \in 1..(k - 1) : log[i] = <<"Matches", log[k][2]>>
              /\ Cardinality({j \in 1..(k - 1) : log[j] = <<"ClubMatch", log[k][2]>>}) = 2

\* a run that wrote players and a whole match: Matches, two ClubMatch rows, Lineups
C3_Witness ==
    /\ pc = "done"
    /\ Len(db.Players) > 0
    /\ Len(db.Lineups) > 0
    /\ Len(db.ClubMatch) = 2 * Len(db.Lineups)

\* C4: for a club of a lineup row whose (season, name) is a key of club_ids, the
\* Matches row holds that key's id, and findClubLevenshtein was not called for it.
C4_ExactLookup ==
    /\ \A i \in 1..Len(db.Matches) :
          LET row   == db.Matches[i]
              match == lineup_values[row[1]]
          IN  /\ HasClub(row[2], match[1]) => row[3] = ClubId(row[2], match[1])
              /\ HasClub(row[2], match[2]) => row[4] = ClubId(row[2], match[2])
    /\ \A call \in lev_calls :
          LET match == lineup_values[call[1]]
          IN  ~ HasClub(dateToSeason(match[4]), SideClub(match, call[2]))

\* a finished match whose home club was found by the exact lookup
C4_Witness ==
    /\ pc = "done"
    /\ \E i \in 1..Len(db.Matches) :
          /\ HasClub(db.Matches[i][2], lineup_values[db.Matches[i][1]][1])
          /\ RowsWith("Lineups", 1, db.Matches[i][6]) # {}

\* the entries of club_ids of a season
SeasonEntries(season) == {i \in 1..Len(club_ids) : club_ids[i].season = season}

\* entry i is, among the entries of the season, the first one in the table's
\* order that has the least edit distance to the name
IsFirstMinimum(i, season, name) ==
    /\ i \in SeasonEntries(season)
    /\ \A j \in SeasonEntries(season) :
          /\ levenshtein_distance(club_ids[j].club, name)
                >= levenshtein_distance(club_ids[i].club, name)
          /\ j < i => levenshtein_distance(club_ids[j].club, name)
                        > levenshtein_distance(club_ids[i].club, name)

\* C5: each call of findClubLevenshtein for a season that has clubs returned the
\* id (or the name) of the first entry of that season at the least edit
\* distance, and that id is the one stored on the Matches row.
C5_LevenshteinFirstMinimum ==
    \A call \in lev_calls :
        LET match  == lineup_values[call[1]]
            season == dateToSeason(match[4])
            name   == SideClub(match, call[2])
        IN  SeasonEntries(season) # {} =>
                \E i \in SeasonEntries(season) :
                    /\ IsFirstMinimum(i, season, name)
                    /\ findClubLevenshtein(TRUE, season, name) = club_ids[i].id
                    /\ findClubLevenshtein(FALSE, season, name) = club_ids[i].club
                    /\ \A r \in RowsWith("Matches", 1, call[1]) :
                          db.Matches[r][IF call[2] = "home" THEN 3 ELSE 4] = club_ids[i].id

\* a match was written whose home club was resolved by the fallback among at
\* least two clubs at the same least distance
C5_Witness ==
    \E call \in lev_calls :
        LET match  == lineup_values[call[1]]
            season == dateToSeason(match[4])
            name   == SideClub(match, call[2])
        IN  /\ RowsWith("Matches", 1, call[1]) # {}
            /\ \E i, j \in SeasonEntries(season) :
                  /\ i < j
                  /\ IsFirstMinimum(i, season, name)
                  /\ levenshtein_distance(club_ids[j].club, name)
                        = levenshtein_distance(club_ids[i].club, name)

\* the ids of the clubs of a season
SeasonClubIds(season) == {club_ids[i].id : i \in SeasonEntries(season)}

\* C6: the club ids of every Matches row are ids of clubs of the row's season, and
\* what findClubLevenshtein returned for a call is a club of the entered season
\* (or, for a season without clubs, no club at all).
C6_SameSeasonOnly ==
    /\ \A i \in 1..Len(db.Matches) :
          /\ db.Matches[i][3] \in SeasonClubIds(db.Matches[i][2])
          /\ db.Matches[i][4] \in SeasonClubIds(db.Matches[i][2])
    /\ \A call \in lev_calls :
          LET match  == lineup_values[call[1]]
              season == dateToSeason(match[4])
              name   == SideClub(match, call[2])
          IN  /\ findClubLevenshtein(TRUE, season, name) \in SeasonClubIds(season) \cup {TypeInt}
              /\ findClubLevenshtein(FALSE, season, name)
                    \in {club_ids[i].club : i \in SeasonEntries(season)} \cup {TypeStr}

\* a match was written whose home club was resolved by the fallback while another
\* season holds a club with exactly the entered name
C6_Witness ==
    \E call \in lev_calls :
        LET match  == lineup_values[call[1]]
            season == dateToSeason(match[4])
            name   == SideClub(match, call[2])
        IN  /\ RowsWith("Matches", 1, call[1]) # {}
            /\ \E i \in 1..Len(club_ids) :
                  club_ids[i].club = name /\ club_ids[i].season # season


\* insertLineups has run for match k
LineupsRan(k) ==
    /\ \E j \in 1..Len(log) : log[j] = <<"ClubMatch", k>>
    /\ ~ (pc = "insertLineups" /\ current_id = k)

\* the match of the last insertLineups call, whose locals home_values and
\* away_values hold (0: none yet)
LastLineup ==
    LET ran == {k \in 1..Len(lineup_values) : LineupsRan(k)}
    IN  IF ran = {} THEN 0 ELSE CHOOSE k \in ran : \A j \in ran : j <= k

Sides == {"home", "away"}

\* the lineup names of a side of match k, as the source row carries them
SideNames(k, side) ==
    IF side = "home" THEN SubSeq(lineup_values[k], 5, 4 + SlotsPerSide)
    ELSE SubSeq(lineup_values[k], 5 + SlotsPerSide, Len(lineup_values[k]))

\* the roster candidates of the club of a side of match k
SideRoster(k, side) ==
    name_ids[lookupRoster(SideClub(lineup_values[k], side),
                          dateToSeason(lineup_values[k][4])).key]

SideValues(side) == IF side = "home" THEN home_values ELSE away_values

\* n occurs in s as a contiguous substring
IsSubstring(n, s) ==
    \E i \in 0..(Len(s) - Len(n)) : SubSeq(s, i + 1, i + Len(n)) = n

\* no value other than the null sentinel occurs twice
NoKeyTwice(values) ==
    \A i, j \in 1..Len(values) :
        i # j /\ values[i] # NullPlayer => values[i] # values[j]

\* the candidates in a roster list
Candidates(team_ids) == {team_ids[i] : i \in 1..Len(team_ids)}

\* a candidate's short or long name contains the lineup name
Contains(candidate, name) ==
    IsSubstring(name, candidate[2]) \/ IsSubstring(name, candidate[3])

\* C7: when the names of the lineup are all distinct and each is a substring of
\* the short or long name of a candidate of its club (both clubs being clubs of
\* the player files, and no candidate containing two of the names, so that no
\* name can take the candidate of another), compareBigrams is not called and all slots of both sides hold keys, no two
\* the same.
C7_ContainmentResolvesSubstrings ==
    LET k == LastLineup
    IN  k # 0 =>
        LET names == SideNames(k, "home") \o SideNames(k, "away")
        IN  (/\ \A i, j \in 1..Len(names) : i # j => names[i] # names[j]
             /\ \A side \in Sides : <<k, side, FALSE>> \notin lev_calls
             /\ \A side \in Sides : \A i \in 1..SlotsPerSide :
                   \E c \in Candidates(SideRoster(k, side)) :
                       Contains(c, SideNames(k, side)[i])
             /\ \A side \in Sides : \A i, j \in 1..SlotsPerSide :
                   i # j => ~ \E c \in Candidates(SideRoster(k, side)) :
                               /\ Contains(c, SideNames(k, side)[i])
                               /\ Contains(c, SideNames(k, side)[j]))
            => /\ \A side \in Sides : <<k, side>> \notin bigram_calls
               /\ Len(home_values) = SlotsPerSide
               /\ Len(away_values) = SlotsPerSide
               /\ \A i \in 1..Len(home_values \o away_values) :
                     (home_values \o away_values)[i] # NullPlayer
               /\ NoKeyTwice(home_values \o away_values)

\* C8: no player key other than the null sentinel occurs twice among the home
\* values, nor twice among the away values.
C8_NoCandidateTwice ==
    NoKeyTwice(home_values) /\ NoKeyTwice(away_values)

\* a side both of whose unresolved names are most similar to the same candidate
\* of the pool the containment pass left
C8_Witness ==
    LET k == LastLineup
    IN  /\ k # 0
        /\ \E side \in Sides :
              LET r == ResolveSide(SideNames(k, side), SideRoster(k, side))
              IN  /\ Len(SideValues(side)) = SlotsPerSide
                  /\ \E i, j \in 1..Len(r.left) :
                        /\ i < j
                        /\ MostSimilar(r.left[i], r.pool) # NullPlayer
                        /\ MostSimilar(r.left[i], r.pool) = MostSimilar(r.left[j], r.pool)

\* C9: insertLineups produces exactly SlotsPerSide home values and exactly
\* SlotsPerSide away values for every lineup row.
C9_ExactlyAllSlots ==
    LastLineup # 0 =>
        Len(home_values) = SlotsPerSide /\ Len(away_values) = SlotsPerSide

\* the bigrams a candidate name has in common with a lineup name
Shared(candidate_name, name) ==
    CommonBigrams(generateBigrams(candidate_name), generateBigrams(name))

\* candidate c shares at least one bigram of its long name with the name, and
\* more than the short and the long name of every other candidate of the pool
LongNameBest(c, pool, name) ==
    /\ Shared(c[3], name) > 0
    /\ \A o \in pool \ {c} :
          /\ Shared(c[3], name) > Shared(o[2], name)
          /\ Shared(c[3], name) > Shared(o[3], name)

\* C10, as claimed: every name the containment pass leaves unresolved gets the
\* candidate whose long name is the best match among the candidates the
\* containment pass left, however many names are unresolved.
C10_BestLongNameOfRemaining ==
    LET k == LastLineup
    IN  k # 0 =>
        \A side \in Sides :
            LET r == ResolveSide(SideNames(k, side), SideRoster(k, side))
            IN  \A n \in 1..Len(r.left) : \A c \in Candidates(r.pool) :
                    LongNameBest(c, Candidates(r.pool), r.left[n])
                        => SideValues(side)[Len(r.contained) + n] = c[1]

\* the candidates still in the pool when the n-th unresolved name is scored: those
\* the containment pass left, less the ones given to the unresolved names before
PoolAt(side, r, n) ==
    {c \in Candidates(r.pool) :
        \A m \in 1..(n - 1) : SideValues(side)[Len(r.contained) + m] # c[1]}

\* C10, amended: every unresolved name gets the candidate whose long name is the
\* best match among the candidates still in the pool when the name is scored.
C10_BestLongNameOfPool ==
    LET k == LastLineup
    IN  k # 0 =>
        \A side \in Sides :
            LET r == ResolveSide(SideNames(k, side), SideRoster(k, side))
            IN  \A n \in 1..Len(r.left) : \A c \in PoolAt(side, r, n) :
                    LongNameBest(c, PoolAt(side, r, n), r.left[n])
                        => SideValues(side)[Len(r.contained) + n] = c[1]

\* an unresolved name got the candidate whose long name is the best match, while
\* another candidate was in the pool and the short name alone was a worse match
C10_Witness ==
    LET k == LastLineup
    IN  /\ k # 0
        /\ \E side \in Sides :
              LET r == ResolveSide(SideNames(k, side), SideRoster(k, side))
              IN  \E n \in 1..Len(r.left) : \E c \in PoolAt(side, r, n) :
                      /\ LongNameBest(c, PoolAt(side, r, n), r.left[n])
                      /\ PoolAt(side, r, n) # {c}
                      /\ Shared(c[2], r.left[n]) < Shared(c[3], r.left[n])
                      /\ SideValues(side)[Len(r.contained) + n] = c[1]

\* the pool compareBigrams holds when it scores the n-th unresolved name of a side:
\* the candidates the containment pass left, in their order, less the ones given to
\* the unresolved names before
PoolSeqAt(side, r, n) ==
    SelectSeq(r.pool, LAMBDA c :
        \A m \in 1..(n - 1) : SideValues(side)[Len(r.contained) + m] # c[1])

\* the name shares no bigram with the short or the long name of any candidate
NoSharedBigram(name, team_ids) ==
    \A c \in Candidates(team_ids) : Shared(c[2], name) = 0 /\ Shared(c[3], name) = 0

\* the home and the away ids selectLineup returns for a Lineups row
LineupSides(row) ==
    {SubSeq(row, 2, 1 + SlotsPerSide), SubSeq(row, 2 + SlotsPerSide, Len(row))}

\* C11: an unresolved name that shares no bigram with any candidate still in the
\* pool (or that finds the pool empty) gets the null sentinel 0, and the names
\* after it are scored against the same pool; 0 is the key of no player; a lineup
\* whose sides have all their values is written, nulls included; and buildSets
\* looks up only keys of Players rows.
C11_UnresolvableNameIsNull ==
    /\ \A i \in 1..Len(Visible("Players")) : Visible("Players")[i][1] # NullPlayer
    /\ \A key \in DOMAIN name_ids : \A i \in 1..Len(name_ids[key]) :
          name_ids[key][i][1] # NullPlayer
    /\ \A i \in 1..Len(db.Lineups) : \A ids \in LineupSides(db.Lineups[i]) :
          \A j \in 1..Len(buildSetsPlayers(ids)) :
              RowsWith("Players", 1, buildSetsPlayers(ids)[j]) # {}
    /\ LET k == LastLineup
       IN  k # 0 =>
           /\ Len(home_values) = SlotsPerSide /\ Len(away_values) = SlotsPerSide
                 => /\ pc # "aborted"
                    /\ \E i \in RowsWith("Lineups", 1, k) :
                          db.Lineups[i] = <<k>> \o home_values \o away_values
           /\ \A side \in Sides :
                 LET r == ResolveSide(SideNames(k, side), SideRoster(k, side))
                     v == SideValues(side)
                     c == Len(r.contained)
                 IN  \A n \in 1..Len(r.left) :
                         NoSharedBigram(r.left[n], PoolSeqAt(side, r, n)) =>
                             /\ v[c + n] = NullPlayer
                             /\ SubSeq(v, c + n + 1, Len(v))
                                   = compareBigrams(SubSeq(r.left, n + 1, Len(r.left)),
                                                    PoolSeqAt(side, r, n))

\* a written lineup with a null slot for a name that shares no bigram with the
\* candidates in the pool, and a null slot for a name that found the pool empty
C11_Witness ==
    LET k == LastLineup
    IN  /\ k # 0
        /\ RowsWith("Lineups", 1, k) # {}
        /\ \E side \in Sides :
              LET r == ResolveSide(SideNames(k, side), SideRoster(k, side))
                  v == SideValues(side)
                  c == Len(r.contained)
              IN  \E n \in 1..Len(r.left) :
                      /\ PoolSeqAt(side, r, n) # <<>>
                      /\ NoSharedBigram(r.left[n], PoolSeqAt(side, r, n))
                      /\ v[c + n] = NullPlayer
        /\ \E side \in Sides :
              LET r == ResolveSide(SideNames(k, side), SideRoster(k, side))
              IN  \E n \in 1..Len(r.left) :
                      /\ PoolSeqAt(side, r, n) = <<>>
                      /\ SideValues(side)[Len(r.contained) + n] = NullPlayer

\* assignClubIDs has run, over player rows that all have their six fields
ClubKeysAssigned ==
    /\ pc \notin {"collectPlayers", "collectClubs", "collectLineups", "assignClubIDs"}
    /\ \A i \in 1..Len(player_values) : Len(player_values[i]) >= PlayerWidth

\* the (season, club name) pairs of the player rows
SeasonClubPairs == {<<player_values[i][6], player_values[i][5]>> : i \in 1..Len(player_values)}

\* the first player row of a season, and the first of a club in a season
FirstRowOfSeason(season) ==
    CHOOSE i \in 1..Len(player_values) :
        /\ player_values[i][6] = season
        /\ \A j \in 1..(i - 1) : player_values[j][6] # season

FirstRowOfClub(season, club) ==
    CHOOSE i \in 1..Len(player_values) :
        /\ player_values[i][6] = season /\ player_values[i][5] = club
        /\ \A j \in 1..(i - 1) : ~ (player_values[j][6] = season /\ player_values[j][5] = club)

\* entry a comes before entry b in season-then-club first-appearance order
SeasonThenClubBefore(a, b) ==
    \/ FirstRowOfSeason(a.season) < FirstRowOfSeason(b.season)
    \/ /\ a.season = b.season
       /\ FirstRowOfClub(a.season, a.club) < FirstRowOfClub(b.season, b.club)

\* C12: once assignClubIDs has run, the key table has one entry for each (season,
\* club name) pair of the player rows and no other, no two entries share a pair
\* or a key, the keys are exactly 1..N, and a key is smaller than another exactly
\* when its pair comes first in season-then-club first-appearance order.
C12_ClubKeysUniqueAndOrdered ==
    ClubKeysAssigned =>
        /\ {<<club_ids[i].season, club_ids[i].club>> : i \in 1..Len(club_ids)} = SeasonClubPairs
        /\ \A i, j \in 1..Len(club_ids) :
              i # j => /\ <<club_ids[i].season, club_ids[i].club>>
                            # <<club_ids[j].season, club_ids[j].club>>
                       /\ club_ids[i].id # club_ids[j].id
        /\ {club_ids[i].id : i \in 1..Len(club_ids)} = 1..Cardinality(SeasonClubPairs)
        /\ \A i, j \in 1..Len(club_ids) :
              club_ids[i].id < club_ids[j].id <=> SeasonThenClubBefore(club_ids[i], club_ids[j])

\* keys were assigned to three pairs of two seasons, and a club of the first season
\* that appears after the second season's first row has the smaller key
C12_Witness ==
    /\ ClubKeysAssigned
    /\ Len(club_ids) = 3
    /\ \E i, j \in 1..Len(club_ids) :
          /\ club_ids[i].id < club_ids[j].id
          /\ club_ids[i].season # club_ids[j].season
          /\ FirstRowOfClub(club_ids[i].season, club_ids[i].club)
                > FirstRowOfClub(club_ids[j].season, club_ids[j].club)

\* insertPlayers has run
PlayersInserted ==
    ClubKeysAssigned /\ pc \notin {"createTables", "insertPlayers"}

\* C13: the season -> clubs and (season, club) -> key mappings are those the
\* partitioner and the key assigner compute from the lines of the player files
\* alone, starting from empty dictionaries; running collectClubs and then
\* assignClubIDs again on the instance changes neither; and the player rows and
\* the name index are those insertPlayers computes from the player rows, starting
\* from an empty index.
C13_KeyAssignmentDeterministic ==
    /\ ClubKeysAssigned =>
          /\ existing_clubs = CollectClubsLoop(<<>>, readCSV(player_datasets))
          /\ club_ids = AssignLoop(CollectClubsLoop(<<>>, readCSV(player_datasets)),
                                   1, 1, <<>>, 1)
          /\ CollectClubsLoop(existing_clubs, player_values) = existing_clubs
          /\ AssignLoop(CollectClubsLoop(existing_clubs, player_values), 1, 1, club_ids, 1)
                = club_ids
    /\ PlayersInserted =>
          LET st == InsertPlayersLoop(1, [rows |-> <<>>, names |-> <<>>, log |-> <<>>])
          IN  /\ name_ids = st.names
              /\ db.Players = st.rows

\* a finished run over three player rows of which two share their season and club
C13_Witness ==
    /\ pc = "done"
    /\ Len(db.Players) = 3
    /\ Len(club_ids) = 2
    /\ Len(existing_clubs) = 2

\* collectClubs has run, over player rows that all have their six fields
ClubsCollected ==
    /\ pc \notin {"collectPlayers", "collectClubs"}
    /\ \A i \in 1..Len(player_values) : Len(player_values[i]) >= PlayerWidth

\* C14: once collectClubs has run, there is one list for each season of the player
\* rows; the list of a season holds the club names of the rows of that season and
\* no other, none of them twice, in the order of their first rows in the season.
C14_SeasonPartition ==
    ClubsCollected =>
        /\ {existing_clubs[i].season : i \in 1..Len(existing_clubs)}
              = {player_values[i][6] : i \in 1..Len(player_values)}
        /\ \A i, j \in 1..Len(existing_clubs) :
              i # j => existing_clubs[i].season # existing_clubs[j].season
        /\ \A i \in 1..Len(existing_clubs) :
              LET season == existing_clubs[i].season
                  clubs  == existing_clubs[i].clubs
              IN  /\ {clubs[k] : k \in 1..Len(clubs)}
                        = {player_values[r][5] :
                              r \in {q \in 1..Len(player_values) : player_values[q][6] = season}}
                  /\ \A k, l \in 1..Len(clubs) :
                        k < l => /\ clubs[k] # clubs[l]
                                 /\ FirstRowOfClub(season, clubs[k])
                                       < FirstRowOfClub(season, clubs[l])

\* a club name was recorded in two seasons, in one of them after another club
C14_Witness ==
    /\ ClubsCollected
    /\ \E i, j \in 1..Len(existing_clubs) :
          /\ i # j
          /\ Len(existing_clubs[i].clubs) = 2
          /\ existing_clubs[i].clubs[2] = existing_clubs[j].clubs[1]

\* the player rows of a club and season
RowsOfClub(key) ==
    {i \in 1..Len(player_values) : <<player_values[i][5], player_values[i][6]>> = key}

\* C15: once insertPlayers has run, the i-th player row is the Players row with
\* playerID i, and the name index has, for each (club, season) of the player rows
\* and no other, the triples (row number, short name, long name) of the rows of
\* that club and season, each once, in row order.
C15_PlayerKeysFollowRowOrder ==
    PlayersInserted =>
        /\ Len(db.Players) = Len(player_values)
        /\ \A i \in 1..Len(db.Players) :
              /\ db.Players[i][1] = i
              /\ db.Players[i][2] = player_values[i][1]
              /\ db.Players[i][3] = player_values[i][2]
              /\ db.Players[i][7] = player_values[i][6]
        /\ DOMAIN name_ids
              = {<<player_values[i][5], player_values[i][6]>> : i \in 1..Len(player_values)}
        /\ \A key \in DOMAIN name_ids :
              LET list == name_ids[key]
              IN  /\ Len(list) = Cardinality(RowsOfClub(key))
                  /\ \A n \in 1..Len(list) :
                        /\ list[n][1] \in RowsOfClub(key)
                        /\ list[n] = <<list[n][1], player_values[list[n][1]][1],
                                       player_values[list[n][1]][2]>>
                  /\ \A n, m \in 1..Len(list) : n < m => list[n][1] < list[m][1]

\* the first and the third player row are of one club and season, the second is not
C15_Witness ==
    /\ PlayersInserted
    /\ \E key \in DOMAIN name_ids :
          /\ Len(name_ids[key]) = 2
          /\ name_ids[key][1][1] = 1
          /\ name_ids[key][2][1] = 3

\* insertClubs has run
ClubsInserted == PlayersInserted /\ pc # "insertClubs"

\* the Clubs rows with a given key, and those with a given season and name
ClubsWithKey(id) == RowsWith("Clubs", 1, id)

ClubsNamed(season, name) ==
    {i \in 1..Len(db.Clubs) : db.Clubs[i][3] = season /\ db.Clubs[i][2] = name}

\* C16: once insertClubs has run, the clubID of every Players row is the key of one
\* Clubs row, which is the one Clubs row with the player's season and club name;
\* and the home and away club keys of every Matches row and the clubID of every
\* ClubMatch row, committed or pending, are keys of Clubs rows.
C16_ClubKeysConsistent ==
    ClubsInserted =>
        /\ \A i \in 1..Len(db.Players) :
              /\ Cardinality(ClubsWithKey(db.Players[i][6])) = 1
              /\ ClubsWithKey(db.Players[i][6])
                    = ClubsNamed(db.Players[i][7], player_values[db.Players[i][1]][5])
        /\ \A i \in 1..Len(db.Matches) :
              /\ ClubsWithKey(db.Matches[i][3]) # {}
              /\ ClubsWithKey(db.Matches[i][4]) # {}
        /\ \A i \in 1..Len(Visible("ClubMatch")) :
              ClubsWithKey(Visible("ClubMatch")[i][1]) # {}

\* a finished run with players of two clubs and a match between the two
C16_Witness ==
    /\ pc = "done"
    /\ \E i, j \in 1..Len(db.Players) : db.Players[i][6] # db.Players[j][6]
    /\ \E i \in 1..Len(db.Matches) : db.Matches[i][3] # db.Matches[i][4]
    /\ Len(db.ClubMatch) = 2

\* the run has ended
IngestionEnded == pc \in {"done", "aborted"}

\* C17: at the end of the run, for every lineup row and every player row with the
\* lineup row's home club name, the season of its date, and its first home name as
\* the short name, the store holds a Clubs row for that season and club with a key
\* K, the player's Players row with clubID K, the Matches row of the lineup row
\* with home_clubID K and that season, and the Lineups row of the lineup row with
\* the player's key in the first home slot.
C17_EndToEnd ==
    IngestionEnded =>
        \A k \in 1..Len(lineup_values) : \A p \in 1..Len(player_values) :
            LET match  == lineup_values[k]
                player == player_values[p]
                season == dateToSeason(match[4])
            IN  (player[5] = match[1] /\ player[6] = season /\ player[1] = match[5])
                => \E c \in ClubsNamed(season, match[1]) :
                      LET K == db.Clubs[c][1]
                      IN  /\ \E i \in RowsWith("Players", 1, p) : db.Players[i][6] = K
                          /\ \E i \in RowsWith("Matches", 1, k) :
                                db.Matches[i][3] = K /\ db.Matches[i][2] = season
                          /\ \E i \in RowsWith("Lineups", 1, k) : db.Lineups[i][2] = p

\* C18: when the run has finished, the ClubMatch rows of every match are two: one
\* with the home club key of its Matches row and one with the away club key.
C18_TwoClubMatchRows ==
    pc = "done" =>
        /\ Len(db.Matches) = Len(lineup_values)
        /\ \A m \in 1..Len(db.Matches) :
              LET rows == RowsWith("ClubMatch", 2, db.Matches[m][1])
              IN  /\ Cardinality(rows) = 2
                  /\ \E i, j \in rows :
                        /\ i # j
                        /\ db.ClubMatch[i][1] = db.Matches[m][3]
                        /\ db.ClubMatch[j][1] = db.Matches[m][4]

\* a finished run of two matches between two clubs
C18_Witness ==
    /\ pc = "done"
    /\ Len(db.Matches) = 2
    /\ Len(db.ClubMatch) = 4
    /\ \A m \in 1..Len(db.Matches) : db.Matches[m][3] # db.Matches[m][4]

LineupWidth == 4 + 2 * SlotsPerSide

\* the entries of a file's lines that have at least the given number of fields
WellFormed(file, width) ==
    SelectSeq(readCSV(file), LAMBDA attributes : Len(attributes) >= width)

\* a line of one of the files has too few fields
SomeMalformedLine ==
    \/ Len(WellFormed(player_datasets, PlayerWidth)) < Len(player_datasets)
    \/ Len(WellFormed(lineups_datasets, LineupWidth)) < Len(lineups_datasets)

\* C20: the collected player rows and lineup rows are the rows of the files that
\* have all their fields; a run over files with a malformed line and a player row
\* that has all its fields does not abort; and a finished run has written a
\* Players row for every well-formed player row and a Matches row for every
\* well-formed lineup row.
C20_MalformedRowsSkipped ==
    /\ pc # "collectPlayers" => player_values = WellFormed(player_datasets, PlayerWidth)
    /\ pc \notin {"collectPlayers", "collectClubs", "collectLineups"}
          => lineup_values = WellFormed(lineups_datasets, LineupWidth)
    /\ SomeMalformedLine /\ WellFormed(player_datasets, PlayerWidth) # <<>>
          => pc # "aborted"
    /\ pc = "done" =>
          /\ Len(db.Players) = Len(WellFormed(player_datasets, PlayerWidth))
          /\ Len(db.Matches) = Len(WellFormed(lineups_datasets, LineupWidth))

\* the lineup rows whose season, by the date, has no club in the key table
EmptySeasonMatches ==
    {k \in 1..Len(lineup_values) :
        /\ Len(lineup_values[k]) >= 4
        /\ SeasonEntries(dateToSeason(lineup_values[k][4])) = {}}

\* the rows, committed or pending, that carry the key of match k
RowsOfMatch(k) ==
    {<<"Matches", i>> : i \in {j \in 1..Len(Visible("Matches")) : Visible("Matches")[j][1] = k}}
    \cup {<<"ClubMatch", i>> :
              i \in {j \in 1..Len(Visible("ClubMatch")) : Visible("ClubMatch")[j][2] = k}}
    \cup {<<"Lineups", i>> : i \in {j \in 1..Len(Visible("Lineups")) : Visible("Lineups")[j][1] = k}}

\* C21: a lineup row whose season has no club in the key table is the last one
\* the run reaches: the loop of insertMatches never gets past it, the run does not
\* finish, and neither that row nor any row after it has a Matches, ClubMatch or
\* Lineups row, committed or pending.
C21_EmptySeasonFatal ==
    ClubKeysAssigned =>
        \A k \in EmptySeasonMatches :
            /\ current_id <= k
            /\ current_id = k => pc \notin {"insertClubMatch", "insertLineups"}
            /\ pc # "done"
            /\ \A j \in k..Len(lineup_values) : RowsOfMatch(j) = {}

\* the run ended at the first of two lineup rows, whose season has no club while
\* the season of the second has clubs
C21_Witness ==
    /\ pc = "aborted"
    /\ ClubKeysAssigned
    /\ club_ids # <<>>
    /\ Len(lineup_values) = 2
    /\ EmptySeasonMatches = {1}
    /\ Len(lineup_values[2]) >= 4
    /\ home_team_id = TypeInt

\* the label of the season that ends on 30 May of a year
SeasonEnding(year) ==
    CASE year = 2013 -> "2012/2013" [] year = 2014 -> "2013/2014"
      [] year = 2015 -> "2014/2015" [] year = 2016 -> "2015/2016"
      [] year = 2017 -> "2016/2017" [] year = 2018 -> "2017/2018"
      [] year = 2019 -> "2018/2019" [] year = 2020 -> "2019/2020"

\* the year of the earliest 30 May that is strictly later than <<day, month, year>>
NextBoundaryYear(d) ==
    IF d[2] < 5 \/ (d[2] = 5 /\ d[1] < 30) THEN d[3] ELSE d[3] + 1

\* the season of a date by the rule of the claim
SeasonByRule(d) ==
    IF NextBoundaryYear(d) > 2020 THEN None
    ELSE IF NextBoundaryYear(d) < 2013 THEN SeasonEnding(2013)
    ELSE SeasonEnding(NextBoundaryYear(d))

ResolvableMatches ==
    {k \in 1..Len(lineup_values) :
        /\ Len(lineup_values[k]) = LineupWidth
        /\ SeasonEntries(dateToSeason(lineup_values[k][4])) # {}}

\* the keys of the Players rows
PlayerKeys == {db.Players[i][1] : i \in 1..Len(db.Players)}

\* C23: for a lineup row with all its fields whose match season has at least one
\* club, ingestion of the match does not fail whatever the club and player names:
\* the run never ends at that match, and once the match is passed its Matches row
\* has two club keys and its Lineups row has a player key or null in every slot.
C23_ResolutionNeverFatal ==
    ClubsInserted =>
        \A k \in ResolvableMatches :
            /\ ~(pc = "aborted" /\ current_id = k)
            /\ current_id > k =>
                  /\ \E i \in RowsWith("Matches", 1, k) :
                        /\ RowsWith("Clubs", 1, db.Matches[i][3]) # {}
                        /\ RowsWith("Clubs", 1, db.Matches[i][4]) # {}
                  /\ \E i \in RowsWith("Lineups", 1, k) :
                        /\ Len(db.Lineups[i]) = 1 + 2 * SlotsPerSide
                        /\ \A j \in 2..Len(db.Lineups[i]) :
                              db.Lineups[i][j] \in PlayerKeys \cup {NullPlayer}

\* the larger of the short-name and the long-name score of a candidate for a name
LargerScore(c, name) ==
    IF Shared(c[2], name) > Shared(c[3], name) THEN Shared(c[2], name)
    ELSE Shared(c[3], name)

\* the positions of the pool whose candidate scores above zero, above every
\* candidate before it and not below any candidate after it
Selected(pool, name) ==
    {i \in 1..Len(pool) :
        /\ LargerScore(pool[i], name) > 0
        /\ \A j \in 1..(i - 1) : LargerScore(pool[j], name) < LargerScore(pool[i], name)
        /\ \A j \in (i + 1)..Len(pool) :
              LargerScore(pool[j], name) <= LargerScore(pool[i], name)}

\* C24: each name the containment pass leaves unresolved is given the candidate
\* whose larger score (short name or long name) is strictly greater than every
\* score before it in pool order, so the first of several equal best candidates;
\* the pool it is scored against has lost the candidates chosen for the unresolved
\* names before it.
C24_SelectionRule ==
    LET k == LastLineup
    IN  k # 0 =>
            \A side \in Sides :
                LET r == ResolveSide(SideNames(k, side), SideRoster(k, side))
                    v == SideValues(side)
                    c == Len(r.contained)
                IN  /\ Len(v) = c + Len(r.left)
                    /\ \A n \in 1..Len(r.left) :
                          LET pool == PoolSeqAt(side, r, n)
                          IN  /\ Cardinality(Selected(pool, r.left[n])) <= 1
                              /\ Selected(pool, r.left[n]) = {} => v[c + n] = NullPlayer
                              /\ \A i \in Selected(pool, r.left[n]) : v[c + n] = pool[i][1]

\* a written lineup with a side of two unresolved names: the first is given the
\* first of two candidates of equal best score, the second the other candidate
C24_Witness ==
    LET k == LastLineup
    IN  /\ k # 0
        /\ RowsWith("Lineups", 1, k) # {}
        /\ \E side \in Sides :
              LET r == ResolveSide(SideNames(k, side), SideRoster(k, side))
                  v == SideValues(side)
              IN  /\ Len(r.left) = 2 /\ Len(r.pool) = 2 /\ Len(r.contained) = 0
                  /\ LargerScore(r.pool[1], r.left[1]) = LargerScore(r.pool[2], r.left[1])
                  /\ LargerScore(r.pool[1], r.left[1]) > 0
                  /\ v = <<r.pool[1][1], r.pool[2][1]>>

\* the number of bigrams two bigram lists have in common as multisets: a bigram
\* that occurs x times in one and y times in the other counts min(x, y) times
RECURSIVE MultisetCommon(_, _)
MultisetCommon(a, b) ==
    IF a = <<>> THEN 0
    ELSE LET at == {i \in 1..Len(b) : b[i] = Head(a)}
         IN  IF at = {} THEN MultisetCommon(Tail(a), b)
             ELSE LET i == CHOOSE j \in at : TRUE
                  IN  1 + MultisetCommon(Tail(a),
                                         SubSeq(b, 1, i - 1) \o SubSeq(b, i + 1, Len(b)))

\* C25: the score compareBigrams computes for a lineup name and a candidate name
\* is the number of bigrams common to their two bigram multisets, and is the same
\* with the roles of the two names swapped.
C25_SymmetricMultisetScore ==
    LET k == LastLineup
    IN  k # 0 =>
            \A side \in Sides :
                LET r == ResolveSide(SideNames(k, side), SideRoster(k, side))
                IN  \A n \in 1..Len(r.left) : \A c \in PoolAt(side, r, n) :
                        \A f \in {2, 3} :
                            /\ Shared(c[f], r.left[n])
                                  = MultisetCommon(generateBigrams(c[f]),
                                                   generateBigrams(r.left[n]))
                            /\ Shared(c[f], r.left[n]) = Shared(r.left[n], c[f])

\* the key insertLineups resolved for the i-th name of a side: the names left to
\* compareBigrams keep their order and get its results in that order, the other
\* names got the results of the containment pass in their order
KeyOfName(lineup, r, i) ==
    LET unresolved(j) == \E m \in 1..Len(r.left) : r.left[m] = lineup[j]
        before == {j \in 1..i : unresolved(j) = unresolved(i)}
    IN  IF unresolved(i) THEN r.values[Len(r.contained) + Cardinality(before)]
        ELSE r.contained[Cardinality(before)]

\* the slots of a side in a Lineups row
SideSlots(row, side) ==
    IF side = "home" THEN SubSeq(row, 2, 1 + SlotsPerSide)
    ELSE SubSeq(row, 2 + SlotsPerSide, Len(row))

\* C26: in every Lineups row, slot i of the home side holds the key (or null)
\* resolved for the i-th home name of the lineup row, and slot i of the away side
\* the key resolved for the i-th away name, whichever pass resolved the name.
C26_SlotOrderPreserved ==
    \A x \in 1..Len(db.Lineups) : \A side \in Sides :
        LET k == db.Lineups[x][1]
            lineup == SideNames(k, side)
            r == ResolveSide(lineup, SideRoster(k, side))
        IN  \A i \in 1..SlotsPerSide :
                SideSlots(db.Lineups[x], side)[i] = KeyOfName(lineup, r, i)

\* C27: every non-null key in a home slot of a Lineups row is the key of a Players
\* row whose clubID is the home_clubID and whose season is the match_season of the
\* Matches row of the same key, and likewise for the away slots and away_clubID,
\* whether the club was found by the exact lookup or by the edit-distance fallback.
C27_RosterOfStoredClub ==
    \A x \in 1..Len(db.Lineups) :
        /\ RowsWith("Matches", 1, db.Lineups[x][1]) # {}
        /\ \A m \in RowsWith("Matches", 1, db.Lineups[x][1]) : \A side \in Sides :
              \A i \in 1..SlotsPerSide :
                  LET key == SideSlots(db.Lineups[x], side)[i]
                  IN  key # NullPlayer =>
                          /\ RowsWith("Players", 1, key) # {}
                          /\ \A p \in RowsWith("Players", 1, key) :
                                /\ db.Players[p][6]
                                      = db.Matches[m][IF side = "home" THEN 3 ELSE 4]
                                /\ db.Players[p][7] = db.Matches[m][2]

\* a Lineups row with a player key in a home slot, of a match whose home club was
\* resolved by the fallback, in a season with a second club
C27_Witness ==
    \E x \in 1..Len(db.Lineups) :
        /\ <<db.Lineups[x][1], "home", TRUE>> \in lev_calls
        /\ <<db.Lineups[x][1], "home", FALSE>> \in lev_calls
        /\ \E i \in 1..SlotsPerSide : SideSlots(db.Lineups[x], "home")[i] # NullPlayer
        /\ \E m \in RowsWith("Matches", 1, db.Lineups[x][1]) :
              Cardinality(SeasonEntries(db.Matches[m][2])) > 1

\* C28: processing a match (insertMatches, insertClubMatch, insertLineups) leaves
\* the club key table and every roster list of the name index as they were before
\* the match; the candidates removed while resolving a lineup are removed from the
\* pool of that match only.
C28_LookupStructuresUnchanged ==
    [][(pc \in {"insertMatches", "insertClubMatch", "insertLineups"})
          => (club_ids' = club_ids /\ name_ids' = name_ids
                /\ existing_clubs' = existing_clubs)]_vars

\* two matches were ingested and the same player, matched and removed from the pool
\* of the first match, is in a home slot of both Lineups rows
C28_Witness ==
    /\ pc = "done"
    /\ Len(db.Lineups) = 2
    /\ \E i \in 1..SlotsPerSide :
          /\ SideSlots(db.Lineups[1], "home")[i] # NullPlayer
          /\ \E j \in 1..SlotsPerSide :
                SideSlots(db.Lineups[2], "home")[j] = SideSlots(db.Lineups[1], "home")[i]

\* C29: in every Lineups row, no player key other than null is both in a home slot
\* and in an away slot.
C29_NoPlayerOnBothSides ==
    \A x \in 1..Len(db.Lineups) : \A i, j \in 1..SlotsPerSide :
        SideSlots(db.Lineups[x], "home")[i] # NullPlayer
            => SideSlots(db.Lineups[x], "home")[i] # SideSlots(db.Lineups[x], "away")[j]


====
